---- MODULE Spec2Model ----
(***************************************************************************)
(* A model of the rendering core of the Rapid map editor:                  *)
(*   - PixiTextures, the texture registry over three atlases,              *)
(*   - PixiFeatureLine, the line feature renderer with its dirty flags,    *)
(*   - the notes and Mapillary layers that reconcile features per frame.   *)
(* Each object of the program is one variable holding a record of the      *)
(* object's fields; each method is an operator from the object (and the    *)
(* method's arguments) to the object after the call.                       *)
(***************************************************************************)
EXTENDS Integers, Sequences, FiniteSets, TLC

VARIABLES
  textures,     \* the PixiTextures instance: loaded, three atlases, three maps
  renderer,     \* what context.pixi.renderer.generateTexture produces here
  bundle,       \* the Assets.loadBundle promise: "pending", "resolved", "rejected"
  phase,        \* the PixiTextures constructor: "constructing", "ready", "threw"
  cacheIdx,     \* the next toSymbolTexture call of _cacheGraphics
  startup,      \* what the constructor did: times rendered / allocated per textureID
  nextTexture,  \* identity of the next texture object an atlas hands out
  held,         \* per (atlasID, textureID): what the last allocate of the pair
                \* returned, while no allocate or free of the pair followed
  feature,      \* a PixiFeatureLine instance
  layer,        \* a layer: layerID, _enabled and the pool `features`
  service,      \* the layer's service: whether it started, the data it holds
  photos,       \* the photo filters of context.systems.photos
  scene,        \* per featureID: feature objects constructed and not destroyed
  frame,        \* the number of the frame rendered last
  context,      \* the editor's context as behaviorSelect sees it: mode, selectedIDs
  streetside,   \* the StreetsideService instance, its requests and the map view
  calls,        \* number of calls made on the object so far
  call          \* the most recent call, its arguments and what it returned

vars == <<textures, renderer, bundle, phase, cacheIdx, startup, nextTexture,
          held, feature, layer, service, photos, scene, frame, context,
          streetside, calls, call>>

layerVars == <<layer, service, photos, scene, frame>>

editorVars == <<context, streetside>>

(***************************************************************************)
(* Bounds of the model.                                                    *)
(***************************************************************************)
MaxCalls == 2
MaxFrames == 2
MaxView == 2
MaxSequences == 3

(***************************************************************************)
(* PixiTextures                                                            *)
(***************************************************************************)

\* The pattern images of the 'patterns' bundle.
PATTERNS ==
  << "bushes", "cemetery", "cemetery_buddhist", "cemetery_christian",
     "cemetery_jewish", "cemetery_muslim", "construction", "dots", "farmland",
     "farmyard", "forest", "forest_broadleaved", "forest_leafless",
     "forest_needleleaved", "grass", "landfill", "lines", "orchard", "pond",
     "quarry", "vineyard", "waves", "wetland", "wetland_bog", "wetland_marsh",
     "wetland_reedbed", "wetland_swamp" >>

\* The textureIDs _cacheGraphics passes to toSymbolTexture, in call order.
CACHED ==
  << "viewfield", "viewfieldDark", "viewfieldOutline",
     "pano", "panoDark", "panoOutline",
     "pin", "boldPin", "largeCircle", "mediumCircle", "smallCircle",
     "taggedCircle",
     "keepright", "improveosm", "osmnote", "osmose",
     "midpoint", "oneway", "sided",
     "lowres-square", "lowres-ell", "lowres-circle",
     "lowres-unfilled-square", "lowres-unfilled-ell",
     "lowres-unfilled-circle" >>

Range(s) == { s[i] : i \in 1..Len(s) }

PatternNames == Range(PATTERNS)
CachedNames == Range(CACHED)

\* The textureIDs callers pass in: a procedural name, a pattern name, a label.
CallerIDs == { "boldPin", "dots", "Main Street" }

TextureIDs == CachedNames \cup PatternNames \cup CallerIDs

\* The atlasIDs callers pass in: the three the class knows and one it does not.
AtlasIDs == { "symbol", "text", "tile" }
CallerAtlasIDs == AtlasIDs \cup { "icon" }

\* JavaScript values a texture variable can hold.
Undefined == [kind |-> "undefined", n |-> 0]     \* Map.get of a missing key
Null == [kind |-> "null", n |-> 0]
RenderTexture == [kind |-> "render", n |-> 0]    \* renderer.generateTexture's
Thrown == [kind |-> "throw", n |-> 0]            \* the call threw a TypeError
None == [kind |-> "none", n |-> 0]               \* no allocate stands for the pair
AtlasTexture(n) == [kind |-> "alloc", n |-> n]   \* handed out by an atlas
PatternTexture(textureID) ==                     \* loaded from the bundle
  [kind |-> "asset",
   n |-> CHOOSE i \in 1..Len(PATTERNS) : PATTERNS[i] = textureID]

Truthy(texture) == texture.kind \in { "alloc", "asset", "render" }

\* AtlasAllocator.allocate: a new texture packed into the atlas, or null when
\* the rectangle cannot be packed.
AtlasAllocate(atlas, fits, n) ==
  IF fits THEN [atlas |-> atlas \cup { AtlasTexture(n) }, texture |-> AtlasTexture(n)]
  ELSE [atlas |-> atlas, texture |-> Null]

\* AtlasAllocator.free: the texture's area is released.
AtlasFree(atlas, texture) == atlas \ { texture }

\* A copy-and-paste slip: the 'text' branch reads the tile map.
getTexture_wrongMap(T, textureID, atlasID) ==
  IF atlasID = "symbol" THEN T.symbolTextures[textureID]
  ELSE IF atlasID = "text" THEN T.tileTextures[textureID]
  ELSE IF atlasID = "tile" THEN T.tileTextures[textureID]
  ELSE Null

getTexture(T, textureID, atlasID) ==
  IF atlasID = "symbol" THEN T.symbolTextures[textureID]
  ELSE IF atlasID = "text" THEN T.textTextures[textureID]
  ELSE IF atlasID = "tile" THEN T.tileTextures[textureID]
  ELSE Null

get(T, textureID) == getTexture(T, textureID, "symbol")

\* free that forgets the atlas: the map entry goes, the area stays packed.
free_leak(T, textureID, atlasID) ==
  IF atlasID = "symbol" THEN [T EXCEPT !.symbolTextures[textureID] = Undefined]
  ELSE IF atlasID = "text" THEN [T EXCEPT !.textTextures[textureID] = Undefined]
  ELSE IF atlasID = "tile" THEN [T EXCEPT !.tileTextures[textureID] = Undefined]
  ELSE T

\* free that forgets the map: the area is released, the entry stays.
free_keepEntry(T, textureID, atlasID) ==
  IF atlasID = "symbol" THEN
    [T EXCEPT !.symbolAtlas = AtlasFree(@, T.symbolTextures[textureID])]
  ELSE IF atlasID = "text" THEN
    [T EXCEPT !.textAtlas = AtlasFree(@, T.textTextures[textureID])]
  ELSE IF atlasID = "tile" THEN
    [T EXCEPT !.tileAtlas = AtlasFree(@, T.tileTextures[textureID])]
  ELSE T

free(T, textureID, atlasID) ==
  IF atlasID = "symbol" THEN
    LET texture == T.symbolTextures[textureID] IN
    [T EXCEPT !.symbolAtlas = IF Truthy(texture) THEN AtlasFree(@, texture) ELSE @,
              !.symbolTextures[textureID] = Undefined]
  ELSE IF atlasID = "text" THEN
    LET texture == T.textTextures[textureID] IN
    [T EXCEPT !.textAtlas = IF Truthy(texture) THEN AtlasFree(@, texture) ELSE @,
              !.textTextures[textureID] = Undefined]
  ELSE IF atlasID = "tile" THEN
    LET texture == T.tileTextures[textureID] IN
    [T EXCEPT !.tileAtlas = IF Truthy(texture) THEN AtlasFree(@, texture) ELSE @,
              !.tileTextures[textureID] = Undefined]
  ELSE T

\* allocate: the object after the call and the texture returned.  `fits` is
\* whether the atlas can pack width x height, `n` the new texture's identity.
allocate(T, textureID, atlasID, fits, n) ==
  LET found == getTexture(T, textureID, atlasID)
      T1 == IF Truthy(found) THEN free(T, textureID, atlasID) ELSE T
  IN
  IF atlasID = "symbol" THEN
    LET a == AtlasAllocate(T1.symbolAtlas, fits, n) IN
    [T |-> [T1 EXCEPT !.symbolAtlas = a.atlas,
                      !.symbolTextures[textureID] = a.texture],
     ret |-> a.texture]
  ELSE IF atlasID = "text" THEN
    LET a == AtlasAllocate(T1.textAtlas, fits, n) IN
    [T |-> [T1 EXCEPT !.textAtlas = a.atlas,
                      !.textTextures[textureID] = a.texture],
     ret |-> a.texture]
  ELSE IF atlasID = "tile" THEN
    LET a == AtlasAllocate(T1.tileAtlas, fits, n) IN
    [T |-> [T1 EXCEPT !.tileAtlas = a.atlas,
                      !.tileTextures[textureID] = a.texture],
     ret |-> a.texture]
  ELSE [T |-> T1, ret |-> IF Truthy(found) THEN Null ELSE found]

\* The renderers generateTexture can run on: the base texture's format and
\* type, whether it has a framebuffer, a GL context and a GL framebuffer.
Renderers ==
  { [format |-> "RGBA", type |-> "UNSIGNED_BYTE", framebuffer |-> TRUE,
     gl |-> TRUE, glfb |-> TRUE],
    [format |-> "RGB", type |-> "UNSIGNED_BYTE", framebuffer |-> TRUE,
     gl |-> TRUE, glfb |-> TRUE],
    [format |-> "RGBA", type |-> "FLOAT", framebuffer |-> TRUE,
     gl |-> TRUE, glfb |-> TRUE],
    [format |-> "RGBA", type |-> "UNSIGNED_BYTE", framebuffer |-> FALSE,
     gl |-> FALSE, glfb |-> FALSE],
    [format |-> "RGBA", type |-> "UNSIGNED_BYTE", framebuffer |-> TRUE,
     gl |-> FALSE, glfb |-> TRUE],
    [format |-> "RGBA", type |-> "UNSIGNED_BYTE", framebuffer |-> TRUE,
     gl |-> TRUE, glfb |-> FALSE] }

\* toSymbolTexture: the object after the call and what the call returned.
toSymbolTexture(T, textureID, R, fits, n) ==
  IF R.format # "RGBA" THEN [T |-> T, ret |-> Undefined]
  ELSE IF R.type # "UNSIGNED_BYTE" THEN [T |-> T, ret |-> Undefined]
  ELSE IF ~R.framebuffer THEN [T |-> T, ret |-> RenderTexture]
  ELSE IF ~R.gl \/ ~R.glfb THEN [T |-> T, ret |-> RenderTexture]
  ELSE
    LET a == allocate(T, textureID, "symbol", fits, n) IN
    \* `texture.orig = ...` on a null texture throws
    IF a.ret = Null THEN [T |-> a.T, ret |-> Thrown]
    ELSE [T |-> a.T, ret |-> a.ret]

\* The .then callback of Assets.loadBundle: every pattern goes into the symbol
\* map as it was loaded, then loaded becomes true.
RECURSIVE setPatterns(_, _)
setPatterns(symbolTextures, i) ==
  IF i > Len(PATTERNS) THEN symbolTextures
  ELSE setPatterns([symbolTextures EXCEPT ![PATTERNS[i]] = PatternTexture(PATTERNS[i])],
                   i + 1)

\* loaded set although the last pattern never got registered.
bundleLoaded_early(T) ==
  [T EXCEPT !.symbolTextures =
              [setPatterns(@, 1) EXCEPT ![PATTERNS[Len(PATTERNS)]] = T.symbolTextures[PATTERNS[Len(PATTERNS)]]],
            !.loaded = TRUE]

bundleLoaded(T) ==
  [T EXCEPT !.symbolTextures = setPatterns(@, 1), !.loaded = TRUE]

(***************************************************************************)
(* PixiFeatureLine                                                         *)
(***************************************************************************)

\* Coordinates a line is given, as scene points: none yet, a line under 4px
\* both ways, and a line 4px wide and under 4px high.
NoCoords == << >>
LineCoords ==
  { << <<0, 0>>, <<3, 2>> >>,
    << <<1, 1>>, <<5, 4>> >> }

Zooms == { 15, 16 }

Min(S) == CHOOSE x \in S : \A y \in S : x <= y
Max(S) == CHOOSE x \in S : \A y \in S : x >= y

\* geometry.extent of the coordinates.
Extent(coords) ==
  [min |-> << Min({ coords[i][1] : i \in 1..Len(coords) }),
              Min({ coords[i][2] : i \in 1..Len(coords) }) >>,
   max |-> << Max({ coords[i][1] : i \in 1..Len(coords) }),
              Max({ coords[i][2] : i \in 1..Len(coords) }) >>]

NoExtent == [min |-> <<0, 0>>, max |-> <<0, 0>>]

STYLE_DEFAULTS ==
  [lineMarkerName |-> "", lineMarkerTexture |-> "",
   sidedMarkerName |-> "", sidedMarkerTexture |-> "",
   casing |-> [width |-> 5, alpha |-> 100],
   stroke |-> [width |-> 3, alpha |-> 100]]

\* The style of a Mapillary sequence line: the casing disabled.
LINESTYLE ==
  [STYLE_DEFAULTS EXCEPT !.casing = [width |-> 0, alpha |-> 0],
                         !.stroke = [width |-> 4, alpha |-> 70]]

\* Styles as the `style` setter stores them: Object.assign({}, STYLE_DEFAULTS, obj).
Styles ==
  { LINESTYLE,
    [STYLE_DEFAULTS EXCEPT !.lineMarkerName = "oneway"],
    [STYLE_DEFAULTS EXCEPT !.sidedMarkerName = "sided"],
    [STYLE_DEFAULTS EXCEPT !.lineMarkerTexture = "texture"] }

Classes == { "hover", "highlight", "select" }

HOVER_GLOW == "0xffff00"
HIGHLIGHT_GLOW == "0x7092ff"
NoFilters == "null"

\* The feature after `new PixiFeatureLine(layer, featureID)`.
NewFeatureLine ==
  [geometry |-> [dirty |-> FALSE, origCoords |-> NoCoords, coords |-> NoCoords,
                 extent |-> NoExtent],
   sceneBounds |-> [x |-> 0, y |-> 0, width |-> 0, height |-> 0],
   style |-> STYLE_DEFAULTS,
   styleDirty |-> TRUE,
   classes |-> {},
   lod |-> 2,
   visible |-> TRUE,
   casing |-> [renderable |-> TRUE],
   stroke |-> [renderable |-> TRUE],
   lineMarkers |-> [attached |-> 0, arrows |-> {}],
   hitArea |-> [coords |-> NoCoords, width |-> 0],
   filters |-> NoFilters,
   halo |-> FALSE]

\* AbstractFeature's `dirty` getter.
dirty(f) == f.geometry.dirty \/ f.styleDirty

\* PixiGeometry.setCoords
setCoords(f, coords) ==
  [f EXCEPT !.geometry.origCoords = coords, !.geometry.dirty = TRUE]

\* PixiGeometry.update: project the coordinates, recompute the extent.
geometryUpdate(G) ==
  [G EXCEPT !.coords = G.origCoords, !.extent = Extent(G.origCoords), !.dirty = FALSE]

\* The `style` setter.
setStyle(f, obj) == [f EXCEPT !.style = obj, !.styleDirty = TRUE]

\* AbstractFeature.setClass / unsetClass
setClass(f, classID) ==
  IF classID \in f.classes THEN f
  ELSE [f EXCEPT !.classes = @ \cup { classID }, !.styleDirty = TRUE]

unsetClass(f, classID) ==
  IF classID \notin f.classes THEN f
  ELSE [f EXCEPT !.classes = @ \ { classID }, !.styleDirty = TRUE]

updateHitArea(f, coords) ==
  IF f.geometry.coords = NoCoords     \* no geometry.flatOuter
  THEN [f EXCEPT !.hitArea = [coords |-> NoCoords, width |-> 0]]
  ELSE LET hitWidth == Max({ 3, f.style.casing.width }) IN
       [f EXCEPT !.hitArea = [coords |-> coords, width |-> hitWidth + 10]]

updateHalo(f) ==
  LET showHover == f.visible /\ "hover" \in f.classes
      showSelect == f.visible /\ "select" \in f.classes
      showHighlight == f.visible /\ "highlight" \in f.classes
      filters == IF showHover
                 THEN (IF f.filters = NoFilters THEN HOVER_GLOW ELSE f.filters)
                 ELSE IF showHighlight
                 THEN (IF f.filters = NoFilters THEN HIGHLIGHT_GLOW ELSE f.filters)
                 ELSE NoFilters
  IN [f EXCEPT !.filters = filters, !.halo = showSelect]

\* The GEOMETRY block of update.
updateGeometry(f) ==
  IF f.geometry.dirty THEN
    LET G == geometryUpdate(f.geometry)
        w == G.extent.max[1] - G.extent.min[1]
        h == G.extent.max[2] - G.extent.min[2]
        f1 == [f EXCEPT !.geometry = G,
                        !.sceneBounds = [x |-> G.extent.min[1], y |-> G.extent.min[2],
                                         width |-> w, height |-> h]]
    IN updateHitArea(f1, G.coords)
  ELSE f

updateLineMarkers_noLookup(f, showMarkers) ==
  LET style == f.style
      named == \/ style.lineMarkerTexture # "" \/ style.lineMarkerName # ""
               \/ style.sidedMarkerTexture # "" \/ style.sidedMarkerName # ""
  IN
  IF showMarkers /\ named THEN
    [attached |-> f.lineMarkers.attached + 1,
     arrows |-> (IF style.lineMarkerName = "oneway" THEN { "oneway" } ELSE {})
                  \cup (IF style.sidedMarkerName = "sided" THEN { "sided" } ELSE {})]
  ELSE IF f.lineMarkers.attached > 0 THEN
    [attached |-> f.lineMarkers.attached - 1, arrows |-> {}]
  ELSE f.lineMarkers

\* The lineMarkers child of the container after the STYLE block.
updateLineMarkers(f, showMarkers) ==
  LET style == f.style
      named == \/ style.lineMarkerTexture # "" \/ style.lineMarkerName # ""
               \/ style.sidedMarkerTexture # "" \/ style.sidedMarkerName # ""
  IN
  IF showMarkers /\ named THEN
    [attached |-> IF f.lineMarkers.attached = 0 THEN 1 ELSE f.lineMarkers.attached,
     arrows |-> (IF style.lineMarkerName = "oneway" THEN { "oneway" } ELSE {})
                  \cup (IF style.sidedMarkerName = "sided" THEN { "sided" } ELSE {})]
  ELSE IF f.lineMarkers.attached > 0 THEN
    [attached |-> f.lineMarkers.attached - 1, arrows |-> {}]
  ELSE f.lineMarkers

\* The body of the STYLE block of update.
restyle(f, zoom) ==
  LET tiny == f.sceneBounds.width < 4 /\ f.sceneBounds.height < 4
      f1 == IF tiny
            THEN [f EXCEPT !.lod = 0, !.visible = FALSE,
                           !.stroke.renderable = FALSE, !.casing.renderable = FALSE]
            ELSE IF zoom < 16
            THEN [f EXCEPT !.lod = 1, !.visible = TRUE,
                           !.stroke.renderable = TRUE, !.casing.renderable = FALSE]
            ELSE [f EXCEPT !.lod = 2, !.visible = TRUE,
                           !.stroke.renderable = TRUE, !.casing.renderable = TRUE]
      showMarkers == ~tiny /\ ~(zoom < 16)
  IN [f1 EXCEPT !.lineMarkers = updateLineMarkers(f1, showMarkers),
                !.styleDirty = FALSE]

\* The STYLE block entered whatever the style's dirty flag says.
updateStyle_unguarded(f, zoom) == restyle(f, zoom)

\* The STYLE block of update.
updateStyle(f, zoom) ==
  IF f.styleDirty THEN restyle(f, zoom) ELSE f

\* update.  What updateGraphic draws into the casing and stroke graphics is
\* pixels only and is not part of the state.
update(f, zoom) ==
  IF ~dirty(f) THEN f
  ELSE updateHalo(updateStyle(updateGeometry(f), zoom))

(***************************************************************************)
(* The layers: PixiLayerOsmNotes and PixiLayerMapillaryPhotos              *)
(***************************************************************************)
MINZOOM == 12
MAPILLARY_GREEN == "0x05cb63"

LayerIDs == {"notes", "mapillary"}
RenderZooms == {11, 15}

\* The `v` of a datum that carries none, and of a feature nothing was bound to.
NoVersion == -1

\* note.v || 0
version(v) == IF v = NoVersion \/ v = 0 THEN 0 ELSE v

\* What the services hold.
NoteIDs == {"-1", "7"}
Versions == {NoVersion, 0, 1}

\* A note as the service has it at version v: it moves and is closed at 1.
Note(id, v) ==
  [id |-> id, v |-> v, loc |-> IF version(v) = 0 THEN <<0, 0>> ELSE <<1, 1>>,
   status |-> IF version(v) = 0 THEN "open" ELSE "closed",
   isNew |-> (id = "-1")]

NoAngle == -1
ImageIDs == {"p1", "p2"}

Image(id) ==
  IF id = "p1"
    THEN [id |-> "p1", loc |-> <<0, 0>>, ca |-> 90, isPano |-> FALSE,
          captured_at |-> 3, captured_by |-> "alice", sequenceID |-> "s1"]
    ELSE [id |-> id, loc |-> <<1, 1>>, ca |-> NoAngle, isPano |-> TRUE,
          captured_at |-> 7, captured_by |-> "bob", sequenceID |-> ""]

SequenceIDs == {"s1"}
LineA == << <<0, 0>>, <<1, 1>> >>
LineB == << <<1, 1>>, <<2, 0>> >>

GeoJSON(type, coordinates) ==
  [geometry |-> [type |-> type, coordinates |-> coordinates],
   properties |-> [is_pano |-> FALSE, captured_at |-> 3,
                   captured_by |-> "alice"]]

\* The features of a sequence's FeatureCollection at version v: one line,
\* and at 1 what more tiles brought.
Shape(v) ==
  IF version(v) = 0
    THEN << GeoJSON("LineString", LineA) >>
    ELSE << GeoJSON("MultiLineString", <<LineA, LineB>>),
            GeoJSON("Point", <<0, 0>>),
            GeoJSON("LineString", LineB) >>

Sequence(id, v) == [id |-> id, v |-> v, features |-> Shape(v)]

\* context.systems.photos
NoDate == [set |-> FALSE, t |-> 0]
Date(t) == [set |-> TRUE, t |-> t]
NoUsernames == [set |-> FALSE, names |-> {}]
Usernames(names) == [set |-> TRUE, names |-> names]
NoPhoto == ""

AllPhotos ==
  [fromDate |-> NoDate, toDate |-> NoDate, usernames |-> NoUsernames,
   flat |-> TRUE, panoramic |-> TRUE, currPhotoID |-> NoPhoto]

PhotoFilters == { AllPhotos, [AllPhotos EXCEPT !.fromDate = Date(5)] }

\* fromDate && new Date(fromDate).getTime(): 0 stands for the falsy results.
timestamp(date) == IF date.set THEN date.t ELSE 0

keep(P, isPano, captured_at, captured_by) ==
  LET fromTimestamp == timestamp(P.fromDate)
      toTimestamp == timestamp(P.toDate)
  IN  IF ~P.flat /\ ~isPano THEN FALSE
      ELSE IF ~P.panoramic /\ isPano THEN FALSE
      ELSE IF fromTimestamp # 0 /\ fromTimestamp > captured_at THEN FALSE
      ELSE IF toTimestamp # 0 /\ toTimestamp < captured_at THEN FALSE
      ELSE IF P.usernames.set /\ captured_by \notin P.usernames.names
        THEN FALSE
      ELSE TRUE

keepImage_noCurrent(P, image) ==
  keep(P, image.isPano, image.captured_at, image.captured_by)

keepImage(P, image) ==
  IF image.id = P.currPhotoID THEN TRUE
  ELSE keep(P, image.isPano, image.captured_at, image.captured_by)

filterImages(P, images) ==
  SelectSeq(images, LAMBDA image : keepImage(P, image))

keepSequence(P, sequence) ==
  IF Len(sequence.features) = 0 THEN FALSE
  ELSE LET seq == sequence.features[1]
       IN  keep(P, seq.properties.is_pano, seq.properties.captured_at,
                seq.properties.captured_by)

filterSequences_all(P, sequences) == sequences

filterSequences(P, sequences) ==
  SelectSeq(sequences, LAMBDA sequence : keepSequence(P, sequence))

\* A feature as its layer sees it.
NewFeature(type, frameNo) ==
  [type |-> type, created |-> frameNo, v |-> NoVersion, coords |-> << >>, dataID |-> "",
   data |-> Null, style |-> [markerName |-> ""], dirty |-> TRUE,
   parentContainer |-> "", zIndex |-> 0, children |-> {},
   updated |-> 0, retained |-> 0, fresh |-> FALSE, replaced |-> FALSE]

bindCoords(f, coords) == [f EXCEPT !.coords = coords, !.dirty = TRUE]
setData(f, dataID, data) ==
  [f EXCEPT !.dataID = dataID, !.data = data, !.dirty = TRUE]
addChildData(f, parentID, childID) ==
  [f EXCEPT !.children = @ \cup {<<parentID, childID>>}]
styleFeature(f, style) == [f EXCEPT !.style = style, !.dirty = TRUE]
updateFeature(f, frameNo) == [f EXCEPT !.dirty = FALSE, !.updated = frameNo]
\* `fresh` records that the feature was updated in the frame that retains it.
retainFeature(f, frameNo) ==
  [f EXCEPT !.retained = frameNo, !.fresh = (f.updated = frameNo)]

\* The pool and the scene while a frame is rendered.
Live(live, featureID) ==
  IF featureID \in DOMAIN live THEN live[featureID] ELSE 0

construct(R, type, featureID, frameNo) ==
  [features |-> (featureID :> NewFeature(type, frameNo)) @@ R.features,
   scene |-> (featureID :> Live(R.scene, featureID) + 1) @@ R.scene]

destroy(R, featureID) ==
  [features |-> [id \in DOMAIN R.features \ {featureID} |-> R.features[id]],
   scene |-> IF Live(R.scene, featureID) <= 1
               THEN [id \in DOMAIN R.scene \ {featureID} |-> R.scene[id]]
               ELSE [R.scene EXCEPT ![featureID] = @ - 1]]

Stale(features, frameNo) ==
  { featureID \in DOMAIN features : features[featureID].retained < frameNo }

RECURSIVE evict(_, _)
evict(R, featureIDs) ==
  IF featureIDs = {} THEN R
  ELSE LET featureID == CHOOSE id \in featureIDs : TRUE
       IN  evict(destroy(R, featureID), featureIDs \ {featureID})

changed_always(f, datum) == TRUE

\* const version = datum.v || 0;  if (feature.v !== version) ...
changed(f, datum) == f.v # version(datum.v)

\* `replaced` records whether the frame that rendered the feature last
\* replaced its coordinates and data.
replace(f, datum, coords, dataID, data) ==
  [setData(bindCoords([f EXCEPT !.v = version(datum.v)], coords),
           dataID, data) EXCEPT !.replaced = TRUE]

hasFeature_never(features, featureID) == FALSE

\* let feature = this.features.get(featureID);  if (!feature) ...
hasFeature(features, featureID) == featureID \in DOMAIN features

NoteFeatureID(layerID, noteID) == layerID \o "-" \o noteID
PhotoFeatureID(layerID, imageID) == layerID \o "-photo-" \o imageID
SequenceFeatureID(layerID, sequenceID, i, j) ==
  layerID \o "-sequence-" \o sequenceID \o "-" \o ToString(i)
          \o "-" \o ToString(j)

NoteStyle(note) ==
  [markerName |-> "osmnote",
   markerTint |-> IF note.isNew THEN "0xffee00"
                  ELSE IF note.status = "closed" THEN "0x55dd00"
                  ELSE "0xff3300",
   iconName |-> IF note.isNew THEN "rapid-icon-plus"
                ELSE IF note.status = "closed" THEN "rapid-icon-apply"
                ELSE "rapid-icon-close"]

\* The body of the loop over the notes.
renderNote(R, layerID, note, frameNo) ==
  LET featureID == NoteFeatureID(layerID, note.id)
      R1 == IF hasFeature(R.features, featureID) THEN R
            ELSE LET C == construct(R, "point", featureID, frameNo)
                 IN  [C EXCEPT !.features[featureID].parentContainer = "qa"]
      f1 == R1.features[featureID]
      f2 == IF changed(f1, note)
              THEN replace(f1, note, note.loc, note.id, note)
              ELSE [f1 EXCEPT !.replaced = FALSE]
      f3 == IF f2.dirty THEN styleFeature(f2, NoteStyle(note)) ELSE f2
  IN  [R1 EXCEPT !.features[featureID] =
         retainFeature(updateFeature(f3, frameNo), frameNo)]

RECURSIVE renderNotes(_, _, _, _)
renderNotes(R, layerID, notes, frameNo) ==
  IF notes = << >> THEN R
  ELSE renderNotes(renderNote(R, layerID, Head(notes), frameNo),
                   layerID, Tail(notes), frameNo)

\* PixiLayerOsmNotes.renderMarkers
notesRenderMarkers(R, osm, layerID, frameNo) ==
  IF ~(osm.exists /\ osm.started) THEN R
  ELSE renderNotes(R, layerID, osm.notes, frameNo)

parts(d) ==
  IF d.geometry.type = "LineString" THEN << d.geometry.coordinates >>
  ELSE IF d.geometry.type = "MultiLineString" THEN d.geometry.coordinates
  ELSE << >>

\* The body of the loops over a sequence's features and their parts.
renderPart(R, layerID, fc, i, j, frameNo) ==
  LET d == fc.features[i + 1]
      coords == parts(d)[j + 1]
      featureID == SequenceFeatureID(layerID, fc.id, i, j)
      R1 == IF hasFeature(R.features, featureID) THEN R
            ELSE LET C == construct(R, "line", featureID, frameNo)
                 IN  [C EXCEPT !.features[featureID] =
                        [styleFeature(@, LINESTYLE) EXCEPT
                           !.parentContainer = "streetview",
                           !.zIndex = -100]]
      f1 == R1.features[featureID]
      f2 == IF changed(f1, fc)
              THEN replace(f1, fc, coords, fc.id, d)
              ELSE [f1 EXCEPT !.replaced = FALSE]
  IN  [R1 EXCEPT !.features[featureID] =
         retainFeature(updateFeature(f2, frameNo), frameNo)]

RECURSIVE renderSequence(_, _, _, _, _, _)
renderSequence(R, layerID, fc, i, j, frameNo) ==
  IF i >= Len(fc.features) THEN R
  ELSE IF j >= Len(parts(fc.features[i + 1]))
    THEN renderSequence(R, layerID, fc, i + 1, 0, frameNo)
  ELSE renderSequence(renderPart(R, layerID, fc, i, j, frameNo),
                      layerID, fc, i, j + 1, frameNo)

RECURSIVE renderSequences(_, _, _, _)
renderSequences(R, layerID, sequences, frameNo) ==
  IF sequences = << >> THEN R
  ELSE renderSequences(renderSequence(R, layerID, Head(sequences), 0, 0,
                                      frameNo),
                       layerID, Tail(sequences), frameNo)

PhotoStyle(d) ==
  [markerName |-> "mediumCircle", markerTint |-> MAPILLARY_GREEN,
   viewfieldAngles |-> IF d.ca # NoAngle THEN <<d.ca>> ELSE << >>,
   viewfieldName |-> IF d.isPano THEN "pano" ELSE "viewfield",
   viewfieldTint |-> MAPILLARY_GREEN]

\* The body of the loop over the images.
renderImage(R, layerID, d, frameNo) ==
  LET featureID == PhotoFeatureID(layerID, d.id)
      R1 == IF hasFeature(R.features, featureID) THEN R
            ELSE LET C == construct(R, "point", featureID, frameNo)
                     f == setData([bindCoords(C.features[featureID], d.loc)
                                     EXCEPT !.parentContainer = "streetview"],
                                  d.id, d)
                 IN  [C EXCEPT !.features[featureID] =
                        IF d.sequenceID # ""
                          THEN addChildData(f, d.sequenceID, d.id)
                          ELSE f]
      f1 == R1.features[featureID]
      f2 == IF f1.dirty THEN styleFeature(f1, PhotoStyle(d)) ELSE f1
  IN  [R1 EXCEPT !.features[featureID] =
         retainFeature(updateFeature(f2, frameNo), frameNo)]

RECURSIVE renderImages(_, _, _, _)
renderImages(R, layerID, images, frameNo) ==
  IF images = << >> THEN R
  ELSE renderImages(renderImage(R, layerID, Head(images), frameNo),
                    layerID, Tail(images), frameNo)

\* PixiLayerMapillaryPhotos.renderMarkers
mapillaryRenderMarkers(R, mapillary, P, layerID, frameNo) ==
  IF ~(mapillary.exists /\ mapillary.started) THEN R
  ELSE LET sequences == filterSequences(P, mapillary.sequences)
           images == filterImages(P, mapillary.images)
       IN  renderImages(renderSequences(R, layerID, sequences, frameNo),
                        layerID, images, frameNo)

\* What render does once its guard has passed: the request for the data of
\* the view, then renderMarkers.
renderView(L, S, P, sc, frameNo) ==
  LET R == [features |-> L.features, scene |-> sc]
      R1 == IF L.layerID = "notes"
              THEN notesRenderMarkers(R, S, L.layerID, frameNo)
              ELSE mapillaryRenderMarkers(R, S, P, L.layerID, frameNo)
  IN  [features |-> R1.features, scene |-> R1.scene,
       log |-> << IF L.layerID = "notes" THEN "loadNotes" ELSE "loadTiles",
                  "renderMarkers" >>]

render_anyZoom(L, S, P, sc, frameNo, zoom) ==
  IF ~L.enabled \/ ~(S.exists /\ S.started)
    THEN [features |-> L.features, scene |-> sc, log |-> << >>]
    ELSE renderView(L, S, P, sc, frameNo)

\* render(frame, viewport, zoom): the pool and the scene afterwards, and the
\* calls it made in their order.
render(L, S, P, sc, frameNo, zoom) ==
  IF ~L.enabled \/ ~(S.exists /\ S.started) \/ zoom < MINZOOM
    THEN [features |-> L.features, scene |-> sc, log |-> << >>]
    ELSE renderView(L, S, P, sc, frameNo)

\* startAsync().then(() => gfx.immediateRedraw()): a service that has
\* started returns a resolved promise, whose callback runs before any other
\* event; otherwise `starting` says that the promise with the layer's
\* callback is not resolved yet.
startThenRedraw(S) ==
  IF S.started
    THEN [service |-> S, log |-> <<"startAsync", "immediateRedraw">>]
    ELSE [service |-> [S EXCEPT !.starting = TRUE], log |-> <<"startAsync">>]

setEnabled_always(L, S, val) ==
  LET v == IF ~S.exists THEN FALSE ELSE val
  IN  [layer |-> [L EXCEPT !.enabled = v],
       service |-> IF v /\ S.exists THEN startThenRedraw(S).service ELSE S,
       log |-> IF v /\ S.exists THEN startThenRedraw(S).log ELSE << >>]

\* set enabled(val): the layer and the service afterwards, and the calls made.
setEnabled(L, S, val) ==
  LET v == IF ~S.exists THEN FALSE ELSE val
  IN  IF v = L.enabled
        THEN [layer |-> L, service |-> S, log |-> << >>]
        ELSE [layer |-> [L EXCEPT !.enabled = v],
              service |-> IF v /\ S.exists
                            THEN startThenRedraw(S).service ELSE S,
              log |-> IF v /\ S.exists THEN startThenRedraw(S).log
                      ELSE << >>]

\* No layer takes part.
NoLayer ==
  /\ layer = << >>
  /\ service = << >>
  /\ photos = << >>
  /\ scene = << >>
  /\ frame = 0

\* Neither behaviorSelect nor the Streetside service takes part.
NoEditor ==
  /\ context = << >>
  /\ streetside = << >>

(***************************************************************************)
(* PixiTextures: construction and calls                                    *)
(***************************************************************************)

NoCounts == [id \in TextureIDs |-> 0]

\* The constructor up to the call of _cacheGraphics.
TexturesInit ==
  /\ textures = [loaded |-> FALSE,
                 symbolAtlas |-> {}, textAtlas |-> {}, tileAtlas |-> {},
                 symbolTextures |-> [id \in TextureIDs |-> Undefined],
                 textTextures |-> [id \in TextureIDs |-> Undefined],
                 tileTextures |-> [id \in TextureIDs |-> Undefined]]
  /\ renderer \in Renderers
  /\ bundle = "pending"
  /\ phase = "constructing"
  /\ cacheIdx = 1
  /\ startup = [rendered |-> NoCounts, allocated |-> NoCounts]
  /\ nextTexture = 1
  /\ held = [a \in AtlasIDs |-> [id \in TextureIDs |-> None]]

Init ==
  /\ TexturesInit
  /\ feature = NewFeatureLine
  /\ NoLayer
  /\ NoEditor
  /\ calls = 0
  /\ call = [op |-> "new", textureID |-> "", atlasID |-> "", ret |-> Undefined]

\* One toSymbolTexture call of _cacheGraphics.  The constructor runs to
\* completion: nothing else is enabled while phase = "constructing".
cacheGraphics ==
  /\ phase = "constructing"
  /\ \E fits \in BOOLEAN :
       LET textureID == CACHED[cacheIdx]
           r == toSymbolTexture(textures, textureID, renderer, fits, nextTexture)
           packed == r.ret.kind \in { "alloc", "throw" }
       IN
       /\ textures' = r.T
       /\ nextTexture' = IF r.ret.kind = "alloc" THEN nextTexture + 1 ELSE nextTexture
       /\ startup' = [startup EXCEPT !.rendered[textureID] = @ + 1,
                                     !.allocated[textureID] = IF packed THEN @ + 1 ELSE @]
       /\ phase' = IF r.ret = Thrown THEN "threw"
                   ELSE IF cacheIdx = Len(CACHED) THEN "ready"
                   ELSE "constructing"
       /\ cacheIdx' = IF r.ret = Thrown THEN cacheIdx ELSE cacheIdx + 1
       /\ held' = IF packed
                  THEN [held EXCEPT !["symbol"][textureID] = getTexture(r.T, textureID, "symbol")]
                  ELSE held
       /\ call' = [op |-> "toSymbolTexture", textureID |-> textureID,
                   atlasID |-> "symbol", ret |-> r.ret]
  /\ UNCHANGED <<renderer, bundle, calls, feature>>
  /\ UNCHANGED <<layerVars, editorVars>>

\* Assets.loadBundle(...).then(...)
LoadResolved ==
  /\ phase # "constructing"
  /\ bundle = "pending"
  /\ bundle' = "resolved"
  /\ textures' = bundleLoaded(textures)
  /\ call' = [op |-> "then", textureID |-> "", atlasID |-> "symbol", ret |-> Undefined]
  /\ UNCHANGED <<renderer, phase, cacheIdx, startup, nextTexture, held, calls, feature>>
  /\ UNCHANGED <<layerVars, editorVars>>

\* Assets.loadBundle(...).catch(...)
LoadRejected ==
  /\ phase # "constructing"
  /\ bundle = "pending"
  /\ bundle' = "rejected"
  /\ call' = [op |-> "catch", textureID |-> "", atlasID |-> "", ret |-> Undefined]
  /\ UNCHANGED <<textures, renderer, phase, cacheIdx, startup, nextTexture, held, calls, feature>>
  /\ UNCHANGED <<layerVars, editorVars>>

Allocate(textureID, atlasID, fits) ==
  /\ phase = "ready"
  /\ calls < MaxCalls
  /\ LET r == allocate(textures, textureID, atlasID, fits, nextTexture) IN
     /\ textures' = r.T
     /\ nextTexture' = IF r.ret.kind = "alloc" THEN nextTexture + 1 ELSE nextTexture
     /\ held' = IF atlasID \in AtlasIDs
                THEN [held EXCEPT ![atlasID][textureID] = r.ret]
                ELSE held
     /\ call' = [op |-> "allocate", textureID |-> textureID, atlasID |-> atlasID,
                 ret |-> r.ret]
  /\ calls' = calls + 1
  /\ UNCHANGED <<renderer, bundle, phase, cacheIdx, startup, feature>>
  /\ UNCHANGED <<layerVars, editorVars>>

Free(textureID, atlasID) ==
  /\ phase = "ready"
  /\ calls < MaxCalls
  /\ textures' = free(textures, textureID, atlasID)
  /\ held' = IF atlasID \in AtlasIDs
             THEN [held EXCEPT ![atlasID][textureID] = None]
             ELSE held
  /\ call' = [op |-> "free", textureID |-> textureID, atlasID |-> atlasID,
              ret |-> Undefined]
  /\ calls' = calls + 1
  /\ UNCHANGED <<renderer, bundle, phase, cacheIdx, startup, nextTexture, feature>>
  /\ UNCHANGED <<layerVars, editorVars>>

ToSymbolTexture(textureID, fits) ==
  /\ phase = "ready"
  /\ calls < MaxCalls
  /\ LET r == toSymbolTexture(textures, textureID, renderer, fits, nextTexture) IN
     /\ textures' = r.T
     /\ nextTexture' = IF r.ret.kind = "alloc" THEN nextTexture + 1 ELSE nextTexture
     /\ held' = IF r.ret.kind \in { "alloc", "throw" }
                THEN [held EXCEPT !["symbol"][textureID] = getTexture(r.T, textureID, "symbol")]
                ELSE held
     /\ call' = [op |-> "toSymbolTexture", textureID |-> textureID,
                 atlasID |-> "symbol", ret |-> r.ret]
  /\ calls' = calls + 1
  /\ UNCHANGED <<renderer, bundle, phase, cacheIdx, startup, feature>>
  /\ UNCHANGED <<layerVars, editorVars>>

Next ==
  \/ cacheGraphics
  \/ LoadResolved
  \/ LoadRejected
  \/ \E textureID \in CallerIDs, atlasID \in CallerAtlasIDs, fits \in BOOLEAN :
       Allocate(textureID, atlasID, fits)
  \/ \E textureID \in CallerIDs, atlasID \in CallerAtlasIDs :
       Free(textureID, atlasID)
  \/ \E textureID \in CallerIDs, fits \in BOOLEAN :
       ToSymbolTexture(textureID, fits)

Spec == Init /\ [][Next]_vars

(***************************************************************************)
(* PixiFeatureLine: calls                                                  *)
(***************************************************************************)

LineIdle == UNCHANGED <<textures, renderer, bundle, phase, cacheIdx, startup,
                        nextTexture, held, calls, layerVars, editorVars>>

SetCoords(coords) ==
  /\ feature' = setCoords(feature, coords)
  /\ call' = [op |-> "setCoords"]
  /\ LineIdle

SetStyle(obj) ==
  /\ feature' = setStyle(feature, obj)
  /\ call' = [op |-> "style"]
  /\ LineIdle

SetClass(classID) ==
  /\ feature' = setClass(feature, classID)
  /\ call' = [op |-> "setClass"]
  /\ LineIdle

UnsetClass(classID) ==
  /\ feature' = unsetClass(feature, classID)
  /\ call' = [op |-> "unsetClass"]
  /\ LineIdle

\* _dirtyCurrentPhoto: feature._styleDirty = true
DirtyStyle ==
  /\ feature' = [feature EXCEPT !.styleDirty = TRUE]
  /\ call' = [op |-> "_dirtyCurrentPhoto"]
  /\ LineIdle

Update(zoom) ==
  /\ feature' = update(feature, zoom)
  /\ call' = [op |-> "update", zoom |-> zoom,
              geometryDirty |-> feature.geometry.dirty,
              styleDirty |-> feature.styleDirty,
              markers |-> feature.lineMarkers.attached]
  /\ LineIdle

\* No PixiTextures takes part.
NoTextures ==
  /\ textures = << >>
  /\ renderer = << >>
  /\ bundle = ""
  /\ phase = ""
  /\ cacheIdx = 0
  /\ startup = << >>
  /\ nextTexture = 0
  /\ held = << >>

LineInit ==
  /\ NoTextures
  /\ feature = setStyle(NewFeatureLine, LINESTYLE)
  /\ NoLayer
  /\ NoEditor
  /\ calls = 0
  /\ call = [op |-> "new"]

LineNext ==
  \/ \E coords \in LineCoords : SetCoords(coords)
  \/ \E obj \in Styles : SetStyle(obj)
  \/ \E classID \in Classes : SetClass(classID)
  \/ \E classID \in Classes : UnsetClass(classID)
  \/ DirtyStyle
  \/ \E zoom \in Zooms : Update(zoom)

SpecLine == LineInit /\ [][LineNext]_vars

(***************************************************************************)
(* The layers: frames, the user's switches and the services' data          *)
(***************************************************************************)
NoCall == [op |-> "", log |-> << >>]

\* A step of the services or of the user: the layer makes no call.
LayerIdle ==
  /\ call' = NoCall
  /\ UNCHANGED <<textures, renderer, bundle, phase, cacheIdx, startup,
                 nextTexture, held, feature, calls, editorVars>>

IsNotes == layer.layerID = "notes"
IsMapillary == layer.layerID = "mapillary"

\* set enabled(val)
SetEnabled(val) ==
  /\ LET E == setEnabled(layer, service, val)
     IN  /\ layer' = E.layer
         /\ service' = E.service
         /\ call' = IF E.log = << >> THEN NoCall
                    ELSE [op |-> "enabled", log |-> E.log]
  /\ UNCHANGED <<photos, scene, frame>>
  /\ UNCHANGED <<textures, renderer, bundle, phase, cacheIdx, startup,
                 nextTexture, held, feature, calls, editorVars>>

\* The promise of startAsync resolves and its callback runs.
StartResolved ==
  /\ service.exists /\ service.starting
  /\ service' = [service EXCEPT !.starting = FALSE, !.started = TRUE]
  /\ call' = [op |-> "then", log |-> <<"immediateRedraw">>]
  /\ UNCHANGED <<layer, photos, scene, frame>>
  /\ UNCHANGED <<textures, renderer, bundle, phase, cacheIdx, startup,
                 nextTexture, held, feature, calls, editorVars>>

Position(seq, id) ==
  IF \E k \in 1..Len(seq) : seq[k].id = id
    THEN CHOOSE k \in 1..Len(seq) : seq[k].id = id
    ELSE 0

Without(seq, id) == SelectSeq(seq, LAMBDA x : x.id # id)

\* The OSM service has a note loaded, or loaded again after it changed.
LoadNote(id, v) ==
  /\ IsNotes /\ service.exists /\ service.started
  /\ LET k == Position(service.notes, id)
     IN  IF k = 0
           THEN service' = [service EXCEPT !.notes = Append(@, Note(id, v))]
           ELSE /\ service.notes[k].v # v
                /\ service' = [service EXCEPT !.notes[k] = Note(id, v)]
  /\ UNCHANGED <<layer, photos, scene, frame>>
  /\ LayerIdle

\* getNotes returns the note no longer.
DropNote(id) ==
  /\ IsNotes /\ Position(service.notes, id) # 0
  /\ service' = [service EXCEPT !.notes = Without(@, id)]
  /\ UNCHANGED <<layer, photos, scene, frame>>
  /\ LayerIdle

LoadImage(id) ==
  /\ IsMapillary /\ service.exists /\ service.started
  /\ Position(service.images, id) = 0
  /\ service' = [service EXCEPT !.images = Append(@, Image(id))]
  /\ UNCHANGED <<layer, photos, scene, frame>>
  /\ LayerIdle

DropImage(id) ==
  /\ IsMapillary /\ Position(service.images, id) # 0
  /\ service' = [service EXCEPT !.images = Without(@, id)]
  /\ UNCHANGED <<layer, photos, scene, frame>>
  /\ LayerIdle

\* A tile brings a sequence, or more of a sequence the service has.
LoadSequence(id, v) ==
  /\ IsMapillary /\ service.exists /\ service.started
  /\ LET k == Position(service.sequences, id)
     IN  IF k = 0
           THEN service' = [service EXCEPT !.sequences =
                              Append(@, Sequence(id, v))]
           ELSE /\ service.sequences[k].v # v
                /\ service' = [service EXCEPT !.sequences[k] =
                                 Sequence(id, v)]
  /\ UNCHANGED <<layer, photos, scene, frame>>
  /\ LayerIdle

DropSequence(id) ==
  /\ IsMapillary /\ Position(service.sequences, id) # 0
  /\ service' = [service EXCEPT !.sequences = Without(@, id)]
  /\ UNCHANGED <<layer, photos, scene, frame>>
  /\ LayerIdle

\* The user changes the photo filters.
SetFilter(P) ==
  /\ IsMapillary
  /\ photos' = [P EXCEPT !.currPhotoID = photos.currPhotoID]
  /\ photos' # photos
  /\ UNCHANGED <<layer, service, scene, frame>>
  /\ LayerIdle

\* The user selects a photo, or none.
SelectPhoto(id) ==
  /\ IsMapillary
  /\ photos' = [photos EXCEPT !.currPhotoID = id]
  /\ photos' # photos
  /\ UNCHANGED <<layer, service, scene, frame>>
  /\ LayerIdle

\* render(frame, viewport, zoom) of the layer, for the next frame.
Render(zoom) ==
  /\ frame < MaxFrames
  /\ frame' = frame + 1
  /\ LET R == render(layer, service, photos, scene, frame', zoom)
     IN  /\ layer' = [layer EXCEPT !.features = R.features]
         /\ scene' = R.scene
         /\ call' = [op |-> "render", zoom |-> zoom, log |-> R.log]
  /\ UNCHANGED <<service, photos>>
  /\ UNCHANGED <<textures, renderer, bundle, phase, cacheIdx, startup,
                 nextTexture, held, feature, calls, editorVars>>

\* The layer gives up the features that the last frame did not retain.
Evict ==
  /\ \E featureID \in DOMAIN layer.features :
       layer.features[featureID].retained < frame
  /\ LET R == evict([features |-> layer.features, scene |-> scene],
                    Stale(layer.features, frame))
     IN  /\ layer' = [layer EXCEPT !.features = R.features]
         /\ scene' = R.scene
  /\ UNCHANGED <<service, photos, frame>>
  /\ LayerIdle

LayerInit ==
  /\ NoTextures
  /\ NoEditor
  /\ feature = << >>
  /\ layer \in { [layerID |-> layerID, enabled |-> FALSE, features |-> << >>] :
                 layerID \in LayerIDs }
  /\ service \in { [exists |-> exists, starting |-> FALSE, started |-> FALSE,
                    notes |-> << >>, sequences |-> << >>, images |-> << >>] :
                   exists \in BOOLEAN }
  /\ photos = AllPhotos
  /\ scene = << >>
  /\ frame = 0
  /\ calls = 0
  /\ call = NoCall

LayerNext ==
  \/ \E val \in BOOLEAN : SetEnabled(val)
  \/ StartResolved
  \/ \E id \in NoteIDs, v \in Versions : LoadNote(id, v)
  \/ \E id \in NoteIDs : DropNote(id)
  \/ \E id \in ImageIDs : LoadImage(id)
  \/ \E id \in ImageIDs : DropImage(id)
  \/ \E id \in SequenceIDs, v \in Versions : LoadSequence(id, v)
  \/ \E id \in SequenceIDs : DropSequence(id)
  \/ \E P \in PhotoFilters : SetFilter(P)
  \/ \E id \in {"p1", NoPhoto} : SelectPhoto(id)
  \/ \E zoom \in RenderZooms : Render(zoom)
  \/ Evict

SpecLayer == LayerInit /\ [][LayerNext]_vars

(***************************************************************************)
(* The photo filters, over every setting and every list of images          *)
(***************************************************************************)
FilterDates == { NoDate, Date(0), Date(5), Date(9) }
FilterUsernames == { NoUsernames, Usernames({}), Usernames({"alice"}) }

PhotoSettings ==
  [fromDate : FilterDates, toDate : FilterDates, usernames : FilterUsernames,
   flat : BOOLEAN, panoramic : BOOLEAN, currPhotoID : ImageIDs \cup {NoPhoto}]

ImageLists ==
  { << >>, <<Image("p1")>>, <<Image("p2")>>, <<Image("p1"), Image("p2")>>,
    <<Image("p2"), Image("p1")>> }

\* A feature of a sequence's FeatureCollection with its own properties.
Track(is_pano, captured_at, captured_by) ==
  [geometry |-> [type |-> "LineString", coordinates |-> LineA],
   properties |-> [is_pano |-> is_pano, captured_at |-> captured_at,
                   captured_by |-> captured_by]]

\* Sequences for the filters: one without features, and two whose first and
\* second features differ in type, capture time and user.
Collection(id) ==
  [id |-> id, v |-> NoVersion,
   features |-> IF id = "s0" THEN << >>
                ELSE IF id = "s1"
                  THEN << Track(FALSE, 3, "alice"), Track(TRUE, 7, "bob") >>
                ELSE << Track(TRUE, 7, "bob"), Track(FALSE, 3, "alice") >>]

SequenceLists ==
  { << >>, <<Collection("s0")>>, <<Collection("s1"), Collection("s2")>>,
    <<Collection("s2"), Collection("s0"), Collection("s1")>> }

FilterInit ==
  /\ NoTextures
  /\ NoEditor
  /\ feature = << >>
  /\ layer = [layerID |-> "mapillary", enabled |-> TRUE, features |-> << >>]
  /\ service \in { [exists |-> TRUE, starting |-> FALSE, started |-> TRUE,
                    notes |-> << >>, sequences |-> sequences,
                    images |-> images] :
                   images \in ImageLists, sequences \in SequenceLists }
  /\ photos \in PhotoSettings
  /\ scene = << >>
  /\ frame = 0
  /\ calls = 0
  /\ call = NoCall

\* images = this.filterImages(images)
FilterImages ==
  /\ call' = [op |-> "filterImages", log |-> << >>,
              ret |-> filterImages(photos, service.images)]
  /\ UNCHANGED <<textures, renderer, bundle, phase, cacheIdx, startup,
                 nextTexture, held, feature, calls, layerVars,
                 editorVars>>

\* sequences = this.filterSequences(sequences)
FilterSequences ==
  /\ call' = [op |-> "filterSequences", log |-> << >>,
              ret |-> filterSequences(photos, service.sequences)]
  /\ UNCHANGED <<textures, renderer, bundle, phase, cacheIdx, startup,
                 nextTexture, held, feature, calls, layerVars,
                 editorVars>>

FilterNext == FilterImages \/ FilterSequences

SpecFilter == FilterInit /\ [][FilterNext]_vars

(***************************************************************************)
(* behaviorSelect: what a click does to the selection                      *)
(***************************************************************************)
EntityIDs == { "n1", "w1", "w2" }

\* What the event's target may carry as __data__: a midpoint, a datum that
\* is no osmEntity (a note), and the OSM entities.
Datums ==
  { [type |-> "midpoint", isEntity |-> FALSE, id |-> "w1-n1"],
    [type |-> "note", isEntity |-> FALSE, id |-> "note7"],
    [type |-> "node", isEntity |-> TRUE, id |-> "n1"],
    [type |-> "way", isEntity |-> TRUE, id |-> "w1"],
    [type |-> "way", isEntity |-> TRUE, id |-> "w2"] }

\* d3.event as click reads it.
Events ==
  [type : {"click", "contextmenu"}, shiftKey : BOOLEAN, lasso : BOOLEAN,
   datum : Datums]

\* modeBrowse(context), modeSelect(context, selectedIDs): the mode that
\* context.enter makes current; context.selectedIDs() is the mode's.
modeBrowse == [mode |-> "browse", selectedIDs |-> << >>]
modeSelect(selectedIDs) == [mode |-> "select", selectedIDs |-> selectedIDs]

\* context.enter(mode)
enter(C, mode) == mode

\* mode.suppressMenu(false).reselect(): the selection stays as it is.
reselect(C) == C

\* Array.prototype.indexOf
indexOf(seq, x) ==
  IF \E k \in 1..Len(seq) : seq[k] = x
    THEN (CHOOSE k \in 1..Len(seq) :
            seq[k] = x /\ \A j \in 1..(k - 1) : seq[j] # x) - 1
    ELSE -1

\* _.without(array, value)
without(seq, x) == SelectSeq(seq, LAMBDA y : y # x)

reselects_anySelected(C, rtClick, datum) ==
  indexOf(C.selectedIDs, datum.id) >= 0

reselects_onlySingle(C, rtClick, datum) ==
  /\ indexOf(C.selectedIDs, datum.id) >= 0
  /\ Len(C.selectedIDs) = 1

\* The test of click without shift and lasso: reselect on a right click on
\* one of the selected IDs, or on a left click on the single selected entity.
reselects(C, rtClick, datum) ==
  /\ indexOf(C.selectedIDs, datum.id) >= 0
  /\ (rtClick \/ Len(C.selectedIDs) = 1)

\* click(): the context afterwards and the calls made on the mode and the
\* context.
click(C, event) ==
  LET rtClick == event.type = "contextmenu"
      datum == event.datum
      lasso == event.lasso
  IN  IF datum.type = "midpoint"
        THEN [context |-> C, log |-> << >>]
      ELSE IF ~datum.isEntity
        THEN IF ~event.shiftKey /\ ~lasso /\ C.mode # "browse"
               THEN [context |-> enter(C, modeBrowse), log |-> <<"enter">>]
               ELSE [context |-> C, log |-> << >>]
      ELSE IF ~event.shiftKey /\ ~lasso
        THEN IF reselects(C, rtClick, datum)
               THEN [context |-> reselect(C), log |-> <<"reselect">>]
               ELSE [context |-> enter(C, modeSelect(<<datum.id>>)),
                     log |-> <<"enter">>]
      ELSE IF indexOf(C.selectedIDs, datum.id) >= 0
        THEN IF rtClick
               THEN [context |-> reselect(C), log |-> <<"reselect">>]
               ELSE LET selectedIDs == without(C.selectedIDs, datum.id)
                    IN  [context |->
                           enter(C, IF Len(selectedIDs) # 0
                                      THEN modeSelect(selectedIDs)
                                      ELSE modeBrowse),
                         log |-> <<"enter">>]
      ELSE [context |->
              enter(C, modeSelect(C.selectedIDs \o <<datum.id>>)),
            log |-> <<"enter">>]

\* A click or contextmenu event reaches the surface.
Click(event) ==
  /\ LET R == click(context, event)
     IN  /\ context' = R.context
         /\ call' = [op |-> "click", log |-> R.log, event |-> event,
                     selectedIDs |-> context.selectedIDs]
  /\ UNCHANGED <<textures, renderer, bundle, phase, cacheIdx, startup,
                 nextTexture, held, feature, calls, layerVars, streetside>>

\* The editor starts in browse mode.
SelectInit ==
  /\ NoTextures
  /\ NoLayer
  /\ feature = << >>
  /\ streetside = << >>
  /\ context = modeBrowse
  /\ calls = 0
  /\ call = NoCall

SelectNext == \E event \in Events : Click(event)

SpecSelect == SelectInit /\ [][SelectNext]_vars

(***************************************************************************)
(* StreetsideService: startup, reset and the loading of tiles              *)
(***************************************************************************)
TileIDs == { "t1", "t2" }

\* The views the map can take: the tiles getTiles(viewport) returns.
Covers == { {"t1"}, {"t2"}, {"t1", "t2"} }

\* The bubbles the server returns for a tile, by their numbers; they name no
\* previous and no next bubble.
BubblesOf(tileID) == IF tileID = "t1" THEN {1} ELSE {2}

TileOf(bubbleID) == CHOOSE tileID \in TileIDs : bubbleID \in BubblesOf(tileID)

\* this._cache = {} of the constructor
NoCache == [metadataPromise |-> "undefined"]

\* The cache that resetAsync makes.
NewCache ==
  [rbush |-> {}, inflight |-> {}, loaded |-> {}, bubbles |-> {},
   sequences |-> {}, unattachedBubbles |-> {}, bubbleHasSequences |-> {},
   metadataPromise |-> "null"]

\* new StreetsideService(context), and the document and the map around it:
\* the link and script elements of the head, the requests that the network
\* holds, the viewport.
NewStreetside ==
  [_loadPromise |-> "null", _startPromise |-> "null", _started |-> FALSE,
   count |-> 0, css |-> "absent", js |-> "absent",
   _cache |-> NoCache, _nextSequenceID |-> 0, _lastv |-> NoVersion,
   lastv |-> "undefined",
   requests |-> {}, viewport |-> [v |-> 0, tiles |-> {"t1"}],
   reloaded |-> TRUE]

\* _loadAssetsAsync(): the promise is made once; the elements are appended
\* where the head has none.
loadAssetsAsync(S) ==
  IF S._loadPromise # "null" THEN S
  ELSE [S EXCEPT !._loadPromise = "pending",
                 !.count = 0,
                 !.css = IF @ = "absent" THEN "loading" ELSE @,
                 !.js = IF @ = "absent" THEN "loading" ELSE @]

\* loaded(): the load event of one of the two elements
loaded(S) ==
  [S EXCEPT !.count = @ + 1,
            !._loadPromise = IF S.count + 1 = 2 /\ @ = "pending"
                               THEN "fulfilled" ELSE @]

\* reject: the error event of one of the two elements
reject(S) ==
  [S EXCEPT !._loadPromise = IF @ = "pending" THEN "rejected" ELSE @]

\* startAsync(): the promise made before is returned, or a new one is made
\* from _loadAssetsAsync().then(..).catch(..).
startAsync(S) ==
  IF S._startPromise # "null" THEN S
  ELSE [loadAssetsAsync(S) EXCEPT !._startPromise = "pending"]

\* .then(() => this._started = true): the start promise resolves.
startThen(S) == [S EXCEPT !._started = TRUE, !._startPromise = "resolved"]

\* .catch(err => { ...; this._startPromise = null; }): the handler returns,
\* so the promise that startAsync returned resolves.
startCatch(S) == [S EXCEPT !._startPromise = "null"]

resetAsync_keepData(S) ==
  [S EXCEPT !._cache = IF "inflight" \in DOMAIN S._cache
                         THEN [@ EXCEPT !.inflight = {}] ELSE NewCache,
            !.requests = {},
            !.lastv = "null",
            !.reloaded = FALSE]

\* resetAsync(): every request of the in-flight map is aborted, which
\* settles it before any other task runs; the cache is made anew; a
\* property `lastv` is set to null.
resetAsync(S) ==
  LET aborted == IF "inflight" \in DOMAIN S._cache
                   THEN S._cache.inflight ELSE {}
  IN  [S EXCEPT !.requests = @ \ aborted,
                !._cache = NewCache,
                !.lastv = "null",
                !.reloaded = FALSE]

\* rbush.search(extent.bbox()): the bubbles of the index in the view
search(S) ==
  { bubbleID \in S._cache.rbush : TileOf(bubbleID) \in S.viewport.tiles }

\* getImages()
getImages(S) == search(S)

\* getSequences()
getSequences(S) ==
  { sequence \in S._cache.sequences :
      \E bubbleID \in search(S) :
        \E has \in S._cache.bubbleHasSequences :
          has.bubbleID = bubbleID /\ sequence.id \in has.sequenceIDs }

\* _loadTileAsync(tile): a request is made unless the tile has one.
loadTileAsync(S, tileID) ==
  IF tileID \in S._cache.inflight THEN S
  ELSE [S EXCEPT !.requests = @ \cup {tileID},
                 !._cache.inflight = @ \cup {tileID}]

RECURSIVE loadEach(_, _)
loadEach(S, tileIDs) ==
  IF tileIDs = {} THEN S
  ELSE LET tileID == CHOOSE t \in tileIDs : TRUE
           skip == tileID \in S._cache.loaded \/ tileID \in S._cache.inflight
       IN  loadEach(IF skip THEN S ELSE loadTileAsync(S, tileID),
                    tileIDs \ {tileID})

\* loadTiles(): nothing when the view is the one of the last call; else the
\* requests for tiles out of the view are aborted, and so settled, and the
\* tiles of the view neither loaded nor in flight are requested.
loadTiles(S) ==
  IF S._lastv = S.viewport.v THEN [S EXCEPT !.reloaded = TRUE]
  ELSE LET tiles == S.viewport.tiles
           unneeded == S._cache.inflight \ tiles
           S1 == [S EXCEPT !._lastv = S.viewport.v,
                           !.requests = @ \ unneeded,
                           !._cache.inflight = @ \ unneeded,
                           !.reloaded = TRUE]
       IN  loadEach(S1, tiles)

\* _connectSequences() for bubbles without neighbours: each unattached
\* bubble, in the order of the numbers, starts a sequence of its own.
RECURSIVE connectSequences(_)
connectSequences(S) ==
  IF S._cache.unattachedBubbles = {} THEN S
  ELSE LET currBubbleID ==
             CHOOSE b \in S._cache.unattachedBubbles :
               \A other \in S._cache.unattachedBubbles : b <= other
           sequenceID == S._nextSequenceID
           sequence == [id |-> sequenceID, v |-> 1,
                        bubbleIDs |-> <<currBubbleID>>]
       IN  connectSequences(
             [S EXCEPT !._nextSequenceID = @ + 1,
                       !._cache.sequences = @ \cup {sequence},
                       !._cache.unattachedBubbles = @ \ {currBubbleID},
                       !._cache.bubbleHasSequences =
                          @ \cup {[bubbleID |-> currBubbleID,
                                   sequenceIDs |-> {sequenceID}]}])

\* _loadedBubbleData(results)
loadedBubbleData(S, tileID) ==
  LET new == BubblesOf(tileID) \ S._cache.bubbles
  IN  connectSequences(
        [S EXCEPT !._cache.loaded = @ \cup {tileID},
                  !._cache.bubbles = @ \cup new,
                  !._cache.unattachedBubbles = @ \cup new,
                  !._cache.rbush = @ \cup new])

\* The request of a tile settles: its data is processed when it arrived, and
\* .finally takes the tile out of the in-flight map.
settle(S, tileID, ok) ==
  LET S1 == IF ok THEN loadedBubbleData(S, tileID) ELSE S
  IN  [S1 EXCEPT !.requests = @ \ {tileID},
                 !._cache.inflight = @ \ {tileID}]

(***************************************************************************)
(* StreetsideService: calls, events of the document and of the network     *)
(***************************************************************************)
StreetsideIdle ==
  UNCHANGED <<textures, renderer, bundle, phase, cacheIdx, startup,
              nextTexture, held, feature, calls, layerVars, context>>

StartAsync ==
  /\ streetside' = startAsync(streetside)
  /\ call' = [op |-> "startAsync", log |-> << >>]
  /\ StreetsideIdle

\* The stylesheet or the script has loaded.
AssetLoaded(element) ==
  /\ streetside[element] = "loading"
  /\ streetside' = loaded([streetside EXCEPT ![element] = "loaded"])
  /\ call' = NoCall
  /\ StreetsideIdle

\* The stylesheet or the script could not be loaded.
AssetError(element) ==
  /\ streetside[element] = "loading"
  /\ streetside' = reject([streetside EXCEPT ![element] = "error"])
  /\ call' = NoCall
  /\ StreetsideIdle

\* The reaction of the start promise to the promise of the assets.
StartSettled ==
  /\ streetside._startPromise = "pending"
  /\ streetside._loadPromise \in {"fulfilled", "rejected"}
  /\ IF streetside._loadPromise = "fulfilled"
       THEN /\ streetside' = startThen(streetside)
            /\ call' = [op |-> "startResolved", log |-> <<"then">>]
       ELSE /\ streetside' = startCatch(streetside)
            /\ call' = [op |-> "startResolved", log |-> <<"catch">>]
  /\ StreetsideIdle

\* initAsync() and resetAsync()
ResetAsync ==
  /\ streetside' = resetAsync(streetside)
  /\ call' = [op |-> "resetAsync", log |-> << >>,
              inflight |-> IF "inflight" \in DOMAIN streetside._cache
                             THEN streetside._cache.inflight ELSE {},
              images |-> IF "rbush" \in DOMAIN streetside._cache
                           THEN getImages(streetside) ELSE {}]
  /\ StreetsideIdle

\* The user moves the map.
MoveView(tiles) ==
  /\ streetside.viewport.v < MaxView
  /\ streetside' = [streetside EXCEPT !.viewport =
                      [v |-> @.v + 1, tiles |-> tiles]]
  /\ call' = NoCall
  /\ StreetsideIdle

\* The layer calls loadTiles of the started and initialised service.
LoadTiles ==
  /\ streetside._started
  /\ "inflight" \in DOMAIN streetside._cache
  /\ streetside' = loadTiles(streetside)
  /\ call' = [op |-> "loadTiles", log |-> << >>,
              v |-> streetside._lastv, reloaded |-> streetside.reloaded]
  /\ StreetsideIdle

\* The response of a tile arrives.
TileLoaded(tileID) ==
  /\ tileID \in streetside.requests
  /\ streetside._nextSequenceID < MaxSequences
  /\ streetside' = settle(streetside, tileID, TRUE)
  /\ call' = [op |-> "loadedBubbleData", log |-> << >>]
  /\ StreetsideIdle

\* The request of a tile fails.
TileFailed(tileID) ==
  /\ tileID \in streetside.requests
  /\ streetside' = settle(streetside, tileID, FALSE)
  /\ call' = NoCall
  /\ StreetsideIdle

StreetsideInit ==
  /\ NoTextures
  /\ NoLayer
  /\ feature = << >>
  /\ context = << >>
  /\ streetside = NewStreetside
  /\ calls = 0
  /\ call = NoCall

StreetsideNext ==
  \/ StartAsync
  \/ \E element \in {"css", "js"} : AssetLoaded(element)
  \/ \E element \in {"css", "js"} : AssetError(element)
  \/ StartSettled
  \/ ResetAsync
  \/ \E tiles \in Covers : MoveView(tiles)
  \/ LoadTiles
  \/ \E tileID \in TileIDs : TileLoaded(tileID)
  \/ \E tileID \in TileIDs : TileFailed(tileID)

SpecStreetside == StreetsideInit /\ [][StreetsideNext]_vars

(***************************************************************************)
(* Properties of PixiTextures                                              *)
(***************************************************************************)

AtlasOf(T, atlasID) ==
  IF atlasID = "symbol" THEN T.symbolAtlas
  ELSE IF atlasID = "text" THEN T.textAtlas
  ELSE T.tileAtlas

Registered(T, textureID, atlasID) == getTexture(T, textureID, atlasID) # Undefined

C2_GetReturnsAllocated ==
  /\ \A atlasID \in AtlasIDs, textureID \in TextureIDs :
       held[atlasID][textureID] # None
         => getTexture(textures, textureID, atlasID) = held[atlasID][textureID]
  /\ \A textureID \in TextureIDs :
       get(textures, textureID) = textures.symbolTextures[textureID]

\* C2 as amended: as claimed, except that the pattern-bundle load replaces the
\* symbol entry of a pattern name by the pattern's texture.
C2_GetReturnsAllocatedOrPattern ==
  /\ \A atlasID \in AtlasIDs, textureID \in TextureIDs :
       held[atlasID][textureID] # None
         => \/ getTexture(textures, textureID, atlasID) = held[atlasID][textureID]
            \/ /\ atlasID = "symbol"
               /\ textureID \in PatternNames
               /\ bundle = "resolved"
               /\ getTexture(textures, textureID, atlasID) = PatternTexture(textureID)
  /\ \A textureID \in TextureIDs :
       get(textures, textureID) = textures.symbolTextures[textureID]

\* C2's case: a texture allocated in the text atlas is still returned after a
\* later call on another pair.
C2_Witness ==
  \E textureID \in CallerIDs :
    /\ held["text"][textureID].kind = "alloc"
    /\ getTexture(textures, textureID, "text") = held["text"][textureID]
    /\ call.op \in { "allocate", "free" }
    /\ <<call.textureID, call.atlasID>> # <<textureID, "text">>

\* C3: free of a registered (textureID, atlasID) leaves the texture unpacked
\* and the pair unregistered; free of an unregistered ID or with an unknown
\* atlasID changes no atlas and no map.
C3_Free ==
  [][ call'.op = "free" =>
        LET textureID == call'.textureID
            atlasID == call'.atlasID
        IN
        IF atlasID \in AtlasIDs /\ Registered(textures, textureID, atlasID)
        THEN /\ ~Registered(textures', textureID, atlasID)
             /\ getTexture(textures, textureID, atlasID) \notin AtlasOf(textures', atlasID)
        ELSE textures' = textures ]_vars

\* C3's case: 'boldPin' was packed at startup and has been freed.
C3_Witness ==
  /\ call.op = "free"
  /\ call.textureID = "boldPin"
  /\ call.atlasID = "symbol"
  /\ held["symbol"]["boldPin"] = None
  /\ Cardinality(textures.symbolAtlas) = Len(CACHED) - 1
  /\ ~Registered(textures, "boldPin", "symbol")

\* C4 as claimed: when the constructor returns, before the bundle load
\* completes, every procedural shape was rendered exactly once and is
\* registered in the symbol map as a texture packed in the symbol atlas, no
\* textureID was allocated twice, and no pattern name is a procedural name.
C4_ShapesCachedAtStartup ==
  (phase = "ready" /\ bundle = "pending" /\ calls = 0)
    => /\ \A textureID \in CachedNames :
            /\ startup.rendered[textureID] = 1
            /\ textures.symbolTextures[textureID] \in textures.symbolAtlas
       /\ \A textureID \in TextureIDs : startup.allocated[textureID] <= 1
       /\ CachedNames \cap PatternNames = {}

\* C5 as claimed: whatever toSymbolTexture returns is packed in the symbol
\* atlas and registered under its textureID in the symbol map.
C5_ReturnsPackedTexture ==
  call.op = "toSymbolTexture"
    => /\ call.ret \in textures.symbolAtlas
       /\ textures.symbolTextures[call.textureID] = call.ret

\* C6: loaded is false while the object is constructed; when it becomes true
\* the bundle load has resolved and every pattern is in the symbol map; once
\* true it stays true; after a failed load it is false, and the load stays
\* failed.
C6_Loaded ==
  /\ [](phase = "constructing" => ~textures.loaded)
  /\ [](textures.loaded => bundle = "resolved")
  /\ [](bundle = "rejected" => ~textures.loaded)
  /\ [][ /\ (~textures.loaded /\ textures'.loaded)
              => \A textureID \in PatternNames :
                   textures'.symbolTextures[textureID] = PatternTexture(textureID)
         /\ textures.loaded => textures'.loaded
         /\ bundle = "rejected" => bundle' = "rejected" ]_vars

\* C6's case: loaded is true and stayed true over a later call.
C6_Witness ==
  /\ textures.loaded
  /\ bundle = "resolved"
  /\ call.op = "free"

(***************************************************************************)
(* Properties of PixiFeatureLine                                           *)
(***************************************************************************)

Tiny(bounds) == bounds.width < 4 /\ bounds.height < 4

\* The level of detail the culling rule gives for scene bounds and a zoom.
LodFor(bounds, zoom) == IF Tiny(bounds) THEN 0 ELSE IF zoom < 16 THEN 1 ELSE 2

\* C7: update changes nothing on a feature that is not dirty; scene bounds,
\* geometry and hit area change only when the geometry is dirty (and are then
\* those of the new coordinates); lod, visibility, the renderable flags and the
\* line markers change only when the style is dirty (and lod is then the one
\* the bounds and the zoom give); the style's dirty flag is false afterwards.
C7_UpdateOnlyWhatIsDirty ==
  [][ call'.op = "update" =>
        /\ ~dirty(feature) => feature' = feature
        /\ ~feature.geometry.dirty =>
             /\ feature'.geometry = feature.geometry
             /\ feature'.sceneBounds = feature.sceneBounds
             /\ feature'.hitArea = feature.hitArea
        /\ feature.geometry.dirty =>
             /\ ~feature'.geometry.dirty
             /\ feature'.geometry.extent = Extent(feature.geometry.origCoords)
             /\ feature'.sceneBounds.width =
                  feature'.geometry.extent.max[1] - feature'.geometry.extent.min[1]
             /\ feature'.sceneBounds.height =
                  feature'.geometry.extent.max[2] - feature'.geometry.extent.min[2]
             /\ feature'.hitArea.coords = feature.geometry.origCoords
        /\ ~feature.styleDirty =>
             /\ feature'.lod = feature.lod
             /\ feature'.visible = feature.visible
             /\ feature'.stroke = feature.stroke
             /\ feature'.casing = feature.casing
             /\ feature'.lineMarkers = feature.lineMarkers
        /\ feature.styleDirty =>
             /\ feature'.lod = LodFor(feature'.sceneBounds, call'.zoom)
             /\ feature'.visible = (feature'.lod # 0)
        /\ ~feature'.styleDirty ]_vars

\* C7's case: an update found the geometry dirty and the style clean, and
\* left lod 2 standing over bounds it had just recomputed.
C7_Witness ==
  /\ call.op = "update"
  /\ call.geometryDirty
  /\ ~call.styleDirty
  /\ feature.lod = 2
  /\ feature.sceneBounds.width = 3
  /\ feature.hitArea.coords = feature.geometry.coords

\* C8 as claimed: after an update of a dirty feature the lod is the one the
\* scene bounds and the zoom of that update give, and the feature is invisible
\* exactly when the lod is 0.
C8_LodMatchesBoundsAndZoom ==
  (call.op = "update" /\ (call.geometryDirty \/ call.styleDirty))
    => /\ feature.lod = LodFor(feature.sceneBounds, call.zoom)
       /\ feature.visible = ~Tiny(feature.sceneBounds)

\* C9 as claimed: after an update of a dirty feature, a visible feature with
\* class hover has the hover glow, a visible one with highlight and without
\* hover the highlight glow, any other feature no filter.
C9_GlowMatchesClasses ==
  (call.op = "update" /\ (call.geometryDirty \/ call.styleDirty))
    => feature.filters =
         IF feature.visible /\ "hover" \in feature.classes THEN HOVER_GLOW
         ELSE IF feature.visible /\ "highlight" \in feature.classes THEN HIGHLIGHT_GLOW
         ELSE NoFilters

\* The style names a line marker or a sided marker, by texture or by name.
NamesMarker(style) ==
  \/ style.lineMarkerTexture # "" \/ style.lineMarkerName # ""
  \/ style.sidedMarkerTexture # "" \/ style.sidedMarkerName # ""

\* C20: after an update that recomputed the style, casing.renderable implies
\* stroke.renderable, stroke.renderable holds iff the feature is visible,
\* the casing is renderable iff lod = 2 and the stroke iff lod >= 1, and a
\* lineMarkers container is attached iff lod = 2 and the style names a
\* marker; no feature ever has two lineMarkers containers attached.
C20_RenderFlagChain ==
  /\ feature.lineMarkers.attached <= 1
  /\ (call.op = "update" /\ call.styleDirty)
       => /\ feature.casing.renderable => feature.stroke.renderable
          /\ feature.stroke.renderable <=> feature.visible
          /\ feature.casing.renderable <=> feature.lod = 2
          /\ feature.stroke.renderable <=> feature.lod >= 1
          /\ feature.lineMarkers.attached = 1
               <=> (feature.lod = 2 /\ NamesMarker(feature.style))

\* A restyle at full detail of a feature whose lineMarkers container was
\* attached already: the container is found, no second one is made.
C20_Witness ==
  /\ call.op = "update" /\ call.styleDirty /\ call.markers = 1
  /\ feature.lod = 2 /\ NamesMarker(feature.style)
  /\ feature.lineMarkers.attached = 1
  /\ feature.casing.renderable /\ feature.stroke.renderable

(***************************************************************************)
(* Properties of the layers                                                *)
(***************************************************************************)
Indices == 0..2

PhotoOrNote(layerID, dataID) ==
  IF layerID = "notes" THEN NoteFeatureID(layerID, dataID)
  ELSE PhotoFeatureID(layerID, dataID)

\* The featureID is the one of the datum bound to the feature.
FeatureIDOfDatum(layerID, featureID, f) ==
  IF f.type = "point"
    THEN featureID = PhotoOrNote(layerID, f.dataID)
    ELSE \E i \in Indices, j \in Indices :
           featureID = SequenceFeatureID(layerID, f.dataID, i, j)

\* Different data have different featureIDs.
FeatureIDsDiffer(layerID) ==
  /\ \A a \in NoteIDs, b \in NoteIDs :
       NoteFeatureID(layerID, a) = NoteFeatureID(layerID, b) => a = b
  /\ \A a \in ImageIDs, b \in ImageIDs :
       PhotoFeatureID(layerID, a) = PhotoFeatureID(layerID, b) => a = b
  /\ \A a \in SequenceIDs, b \in SequenceIDs :
       \A i \in Indices, j \in Indices, k \in Indices, l \in Indices :
         SequenceFeatureID(layerID, a, i, j) = SequenceFeatureID(layerID, b, k, l)
           => a = b /\ i = k /\ j = l
  /\ \A a \in ImageIDs, b \in SequenceIDs, i \in Indices, j \in Indices :
       PhotoFeatureID(layerID, a) # SequenceFeatureID(layerID, b, i, j)

OneFeaturePerDatum ==
  /\ FeatureIDsDiffer(layer.layerID)
  /\ DOMAIN scene = DOMAIN layer.features
  /\ \A featureID \in DOMAIN scene : scene[featureID] = 1
  /\ \A featureID \in DOMAIN layer.features :
       FeatureIDOfDatum(layer.layerID, featureID, layer.features[featureID])
  /\ \A a \in DOMAIN layer.features, b \in DOMAIN layer.features :
       /\ layer.features[a].type = "point"
       /\ layer.features[b].type = "point"
       /\ layer.features[a].dataID = layer.features[b].dataID
       => a = b

CreatedOnlyWhenMissing ==
  \A featureID \in DOMAIN scene' :
    IF featureID \in DOMAIN layer.features
      THEN /\ Live(scene', featureID) = Live(scene, featureID)
           /\ layer.features'[featureID].created
                = layer.features[featureID].created
      ELSE Live(scene', featureID) = 1

\* C10: across the frames a layer holds at most one feature per datum: the
\* featureID is a function of the layerID and the datum's ID (with the
\* feature and part index for a sequence), every feature that was
\* constructed and not destroyed is the pool's entry under its featureID,
\* and a step constructs a feature only under a featureID the pool has no
\* feature for, keeping the feature it has otherwise.
C10_OneFeaturePerDatum ==
  /\ []OneFeaturePerDatum
  /\ [][CreatedOnlyWhenMissing]_vars

\* The second frame renders a datum whose feature the first frame created.
C10_Witness ==
  /\ frame = 2
  /\ \E featureID \in DOMAIN layer.features :
       /\ layer.features[featureID].created = 1
       /\ layer.features[featureID].retained = 2
       /\ scene[featureID] = 1
  /\ \E featureID \in DOMAIN layer.features :
       layer.features[featureID].created = 2

\* The featureIDs of the data the service returns now, those of Mapillary
\* that pass the filters.
PartIDs(layerID, fc) ==
  UNION { { SequenceFeatureID(layerID, fc.id, i - 1, j - 1) :
              j \in 1..Len(parts(fc.features[i])) } :
          i \in 1..Len(fc.features) }

CurrentFeatureIDs ==
  IF IsNotes
    THEN { NoteFeatureID(layer.layerID, service.notes[k].id) :
             k \in 1..Len(service.notes) }
    ELSE { PhotoFeatureID(layer.layerID, service.images[k].id) :
             k \in { n \in 1..Len(service.images) :
                       keepImage(photos, service.images[n]) } }
         \cup UNION { PartIDs(layer.layerID, service.sequences[k]) :
                        k \in { n \in 1..Len(service.sequences) :
                                  keepSequence(photos, service.sequences[n]) } }

RenderMarkersRan == frame' = frame + 1 /\ call'.log # << >>

RetainsCurrentData ==
  RenderMarkersRan =>
    /\ CurrentFeatureIDs \subseteq DOMAIN layer.features'
    /\ \A featureID \in DOMAIN layer.features' :
         layer.features'[featureID].retained = frame'
           <=> featureID \in CurrentFeatureIDs
    /\ \A featureID \in CurrentFeatureIDs :
         /\ layer.features'[featureID].updated = frame'
         /\ layer.features'[featureID].fresh

\* C11: in every frame in which renderMarkers runs, the features retained
\* with the frame's number are exactly the features of the data the service
\* returns (those that pass the filters, for Mapillary), each one updated in
\* that frame before it was retained; a feature whose datum is not returned
\* keeps the frame number of an earlier frame.
C11_RetainsCurrentData == [][RetainsCurrentData]_vars

\* A frame retained one feature and left alone another, whose datum is gone.
C11_Witness ==
  /\ frame = 2
  /\ call.log # << >>
  /\ \E a \in DOMAIN layer.features, b \in DOMAIN layer.features :
       /\ layer.features[a].retained = 2
       /\ layer.features[b].retained = 1
       /\ a \in CurrentFeatureIDs
       /\ b \notin CurrentFeatureIDs

RenderGuardFails ==
  \/ ~layer.enabled
  \/ ~service.exists
  \/ ~service.started
  \/ call'.zoom < MINZOOM

RenderGuarded ==
  frame' = frame + 1 =>
    IF RenderGuardFails
      THEN /\ call'.log = << >>
           /\ layer' = layer
           /\ scene' = scene
      ELSE /\ Len(call'.log) = 2
           /\ call'.log[1] \in {"loadNotes", "loadTiles"}
           /\ call'.log[2] = "renderMarkers"

\* C12: render asks the service for no data and creates, updates and
\* retains no feature when the layer is not enabled, the service is absent
\* or has not started, or the zoom is below 12; otherwise it asks for the
\* data of the view and then renders the markers.
C12_RenderGuarded == [][RenderGuarded]_vars

\* A frame below the minimum zoom left an enabled layer with data alone.
C12_Witness ==
  /\ call.op = "render"
  /\ call.zoom < MINZOOM
  /\ call.log = << >>
  /\ layer.enabled /\ service.started
  /\ CurrentFeatureIDs # {}
  /\ frame = 1
  /\ DOMAIN layer.features = {}

Logged(name) == \E k \in 1..Len(call'.log) : call'.log[k] = name

TurnedOn == ~layer.enabled /\ layer'.enabled

EnabledSetter ==
  /\ Logged("startAsync") => TurnedOn
  /\ (service'.starting /\ ~service.starting) => TurnedOn
  /\ TurnedOn => Logged("startAsync")
  /\ call'.op = "enabled" => TurnedOn
  /\ Logged("immediateRedraw") =>
       /\ service'.started /\ ~service'.starting
       /\ service.starting \/ (service.started /\ Logged("startAsync"))

\* C13: a layer is never enabled while its service does not exist; the
\* service's startAsync is called in a step only if the step turns enabled
\* from false to true, so assigning the value that enabled has starts nothing
\* and leaves the layer and the service as they are; and
\* an immediate redraw is requested only in a step in which the promise of
\* startAsync resolves or has resolved, the service being started.
C13_EnabledSetter ==
  /\ [](layer.enabled => service.exists)
  /\ [][EnabledSetter]_vars

\* The service started after the layer was enabled, and the redraw followed.
C13_Witness ==
  /\ call.op = "then"
  /\ layer.enabled
  /\ service.started

(***************************************************************************)
(* Properties of the photo filters                                         *)
(***************************************************************************)
Among(image, images) == \E k \in 1..Len(images) : images[k] = image

\* C14: filterImages keeps the selected photo: whatever the photo types,
\* the dates and the usernames are set to, an image of the input whose id is
\* photos.currPhotoID is in the output.
C14_CurrentPhotoKept ==
  call.op = "filterImages" =>
    \A k \in 1..Len(service.images) :
      service.images[k].id = photos.currPhotoID
        => Among(service.images[k], call.ret)

\* The selected photo is in the output although the filters reject it.
C14_Witness ==
  /\ call.op = "filterImages"
  /\ \E k \in 1..Len(service.images) :
       /\ service.images[k].id = photos.currPhotoID
       /\ ~keep(photos, service.images[k].isPano,
                service.images[k].captured_at, service.images[k].captured_by)
       /\ Among(service.images[k], call.ret)
  /\ Len(call.ret) < Len(service.images)

\* What a frame may do to the feature of a datum: replace coordinates and
\* data when the feature is new or holds another version, leave them alone
\* otherwise; the feature holds the datum's version afterwards.
VersionApplied(featureID, datum, coords, dataID, data) ==
  LET had == featureID \in DOMAIN layer.features
      old == layer.features[featureID]
      new == layer.features'[featureID]
      differs == ~had \/ old.v # version(datum.v)
  IN  /\ new.v = version(datum.v)
      /\ new.replaced <=> differs
      /\ differs => /\ new.coords = coords
                    /\ new.dataID = dataID
                    /\ new.data = data
      /\ ~differs => /\ new.coords = old.coords
                     /\ new.dataID = old.dataID
                     /\ new.data = old.data

NotesApplied ==
  \A k \in 1..Len(service.notes) :
    LET note == service.notes[k]
    IN  VersionApplied(NoteFeatureID(layer.layerID, note.id), note,
                       note.loc, note.id, note)

SequencesApplied ==
  \A k \in 1..Len(service.sequences) :
    LET fc == service.sequences[k]
    IN  keepSequence(photos, fc) =>
          \A i \in 1..Len(fc.features) :
            \A j \in 1..Len(parts(fc.features[i])) :
              VersionApplied(
                SequenceFeatureID(layer.layerID, fc.id, i - 1, j - 1), fc,
                parts(fc.features[i])[j], fc.id, fc.features[i])

VersionsApplied ==
  RenderMarkersRan => IF IsNotes THEN NotesApplied ELSE SequencesApplied

\* C21: a frame whose renderMarkers runs replaces the coordinates and the
\* bound data of a note's or a sequence part's feature iff the version stored
\* on the feature differs from the datum's (v, or 0 when it has none); after
\* the frame the feature holds the datum's version, its coordinates and the
\* datum, and a feature that held the version already keeps its geometry and
\* data untouched.
C21_VersionsApplied == [][VersionsApplied]_vars

\* The second frame applied a version bump to a feature of the first frame,
\* and left alone another feature of the first frame.
C21_Witness ==
  /\ frame = 2
  /\ call.op = "render" /\ call.log # << >>
  /\ \E a \in DOMAIN layer.features, b \in DOMAIN layer.features :
       /\ layer.features[a].created = 1 /\ layer.features[a].retained = 2
       /\ layer.features[a].replaced /\ layer.features[a].v = 1
       /\ layer.features[b].created = 1 /\ layer.features[b].retained = 2
       /\ ~layer.features[b].replaced

(***************************************************************************)
(* Properties of behaviorSelect                                            *)
(***************************************************************************)
Clicked == call.op = "click"

OnEntity == Clicked /\ call.event.datum.isEntity

WasSelected == indexOf(call.selectedIDs, call.event.datum.id) >= 0

\* C15: after a left click without shift and without an active lasso on an
\* OSM entity E the selected IDs are exactly [E], whatever was selected
\* before: the click reselects when E was the single selection already and
\* enters select mode with [E] otherwise.
C15_LeftClickSelectsOne ==
  (OnEntity /\ call.event.type = "click" /\ ~call.event.shiftKey
     /\ ~call.event.lasso)
    => /\ context.selectedIDs = <<call.event.datum.id>>
       /\ context.mode = "select"
       /\ call.log = IF call.selectedIDs = <<call.event.datum.id>>
                       THEN <<"reselect">> ELSE <<"enter">>

\* A plain left click on one entity of a selection of two or more.
C15_Witness ==
  /\ OnEntity /\ call.event.type = "click" /\ ~call.event.shiftKey
  /\ ~call.event.lasso
  /\ Len(call.selectedIDs) >= 2 /\ WasSelected
  /\ context.selectedIDs = <<call.event.datum.id>>

RightClicked == OnEntity /\ call.event.type = "contextmenu"

\* C16: a right click on a selected entity leaves the selected IDs as they
\* were, with or without shift, and a right click on an unselected entity
\* never does; without shift and without an active lasso, the right click
\* on an unselected entity makes that entity the whole selection.
C16_RightClickKeepsSelection ==
  RightClicked
    => /\ WasSelected => context.selectedIDs = call.selectedIDs
       /\ ~WasSelected => context.selectedIDs # call.selectedIDs
       /\ (~WasSelected /\ ~call.event.shiftKey /\ ~call.event.lasso)
            => context.selectedIDs = <<call.event.datum.id>>

\* A right click without shift on one entity of a selection of two or more.
C16_Witness ==
  /\ RightClicked /\ ~call.event.shiftKey /\ WasSelected
  /\ Len(call.selectedIDs) >= 2
  /\ context.selectedIDs = call.selectedIDs

\* C16 as stated: every right click without shift on an unselected entity
\* makes that entity the whole selection.
C16_AsStated ==
  (RightClicked /\ ~WasSelected /\ ~call.event.shiftKey)
    => context.selectedIDs = <<call.event.datum.id>>

(***************************************************************************)
(* Properties of StreetsideService                                         *)
(***************************************************************************)
AssetsLoaded == streetside.css = "loaded" /\ streetside.js = "loaded"

\* C17: whenever the promise that startAsync returned resolves, the
\* Pannellum assets have loaded and the started flag is true.
C17_ResolvedMeansStarted ==
  call.op = "startResolved" => AssetsLoaded /\ streetside._started

Initialised(S) == "inflight" \in DOMAIN S._cache

EmptyCache(S) ==
  /\ S._cache.loaded = {} /\ S._cache.inflight = {}
  /\ S._cache.bubbles = {} /\ S._cache.sequences = {}
  /\ S._cache.unattachedBubbles = {} /\ S._cache.rbush = {}

ResetEmpties ==
  call'.op = "resetAsync"
    => /\ \A tileID \in call'.inflight : tileID \notin streetside'.requests
       /\ Initialised(streetside') /\ EmptyCache(streetside')
       /\ getImages(streetside') = {} /\ getSequences(streetside') = {}

NothingUntilLoaded ==
  (Initialised(streetside) /\ streetside._cache.rbush = {}
     /\ call'.op # "loadedBubbleData")
    => /\ Initialised(streetside') /\ streetside'._cache.rbush = {}
       /\ getImages(streetside') = {} /\ getSequences(streetside') = {}

\* C18: resetAsync aborts every request in flight at the call and leaves the
\* loaded-tile set, the in-flight map, the bubble and sequence maps, the
\* unattached set and the spatial index empty; from then on getImages and
\* getSequences return nothing until the data of a tile is loaded.
C18_ResetEmptiesCache == [][ResetEmpties /\ NothingUntilLoaded]_vars

\* A reset that found a request in flight and images in the view.
C18_Witness ==
  /\ call.op = "resetAsync"
  /\ call.inflight # {} /\ call.images # {}
  /\ streetside.requests = {} /\ EmptyCache(streetside)

\* C19: the first loadTiles after a resetAsync requests every tile of the
\* view, also when the viewport's version is the one of the last loadTiles
\* before the reset.
C19_ReloadsAfterReset ==
  (call.op = "loadTiles" /\ ~call.reloaded)
    => streetside.viewport.tiles \subseteq streetside.requests

\* a is b with some elements left out, the others in b's order.
RECURSIVE IsSubList(_, _)
IsSubList(a, b) ==
  IF a = << >> THEN TRUE
  ELSE IF b = << >> THEN FALSE
  ELSE IF Head(a) = Head(b) THEN IsSubList(Tail(a), Tail(b))
  ELSE IsSubList(a, Tail(b))

\* The filters' predicate as the claim words it.
Shown(P, isPano, t, captured_by) ==
  /\ IF isPano THEN P.panoramic ELSE P.flat
  /\ P.fromDate.set => P.fromDate.t <= t
  /\ P.toDate.set => t <= P.toDate.t
  /\ P.usernames.set => captured_by \in P.usernames.names

ImagesFiltered ==
  call.op = "filterImages" =>
    /\ IsSubList(call.ret, service.images)
    /\ filterImages(photos, call.ret) = call.ret
    /\ \A k \in 1..Len(service.images) :
         LET image == service.images[k]
         IN  image.id # photos.currPhotoID =>
               (Among(image, call.ret)
                  <=> Shown(photos, image.isPano, image.captured_at,
                            image.captured_by))

SequencesFiltered ==
  call.op = "filterSequences" =>
    /\ IsSubList(call.ret, service.sequences)
    /\ filterSequences(photos, call.ret) = call.ret
    /\ \A k \in 1..Len(service.sequences) :
         LET sequence == service.sequences[k]
         IN  Among(sequence, call.ret)
               <=> /\ Len(sequence.features) > 0
                   /\ Shown(photos, sequence.features[1].properties.is_pano,
                            sequence.features[1].properties.captured_at,
                            sequence.features[1].properties.captured_by)

\* C22: filterImages and filterSequences return a sub-list of their input in
\* the input's order and are idempotent; an image other than the current
\* photo is kept iff its type is shown, from <= t when a from-date is set,
\* t <= to when a to-date is set, and its user is in the username list when
\* one is set; a sequence is kept iff it has a feature and its first feature
\* passes the same test.
C22_FiltersAsStated == ImagesFiltered /\ SequencesFiltered

====
